---- MODULE Spec2Model ----
(***************************************************************************)
(* Model of src/app/page.tsx: the upload handler onFile / reader.onload,   *)
(* the helpers getSheetByNameLike, parsePivot, paretoCount and the derived *)
(* aggregates perUser / perHour / totals.                                  *)
(*                                                                         *)
(* Representation.                                                         *)
(*  - A JavaScript string is a sequence of one-character strings.          *)
(*  - A JavaScript number n is the integer 10*n (one decimal digit is      *)
(*    kept), so 1234.5 is 12345 and the literal 1 is 10.  Hours (Hora) are *)
(*    plain integers, as parseInt returns them.                            *)
(*  - A cell of a sheet_to_json matrix is null, a text or a number.        *)
(*  - Indices are 1-based; 0 stands for the code's -1 ("not found").       *)
(***************************************************************************)
EXTENDS Integers, Sequences, FiniteSets, TLC

VARIABLES rows, status, pending, started, last, input, output, pc

vars == <<rows, status, pending, started, last, input, output, pc>>

(***************************************************************************)
(* Strings                                                                 *)
(***************************************************************************)
Digits == <<"0", "1", "2", "3", "4", "5", "6", "7", "8", "9">>

IsDigit(c) == \E i \in 1..10 : Digits[i] = c

DigitVal(c) == (CHOOSE i \in 1..10 : Digits[i] = c) - 1

IsSpace(c) == c \in {" ", "\t"}

LowerToUpper ==
  ("a" :> "A") @@ ("b" :> "B") @@ ("d" :> "D") @@ ("e" :> "E") @@
  ("g" :> "G") @@ ("h" :> "H") @@ ("i" :> "I") @@ ("l" :> "L") @@
  ("n" :> "N") @@ ("o" :> "O") @@ ("r" :> "R") @@ ("s" :> "S") @@
  ("t" :> "T") @@ ("u" :> "U") @@ ("x" :> "X") @@ ("á" :> "Á")

UpperChar(c) == IF c \in DOMAIN LowerToUpper THEN LowerToUpper[c] ELSE c

\* String.prototype.toUpperCase
toUpperCase(s) == [i \in 1..Len(s) |-> UpperChar(s[i])]

RECURSIVE TrimStart(_)
TrimStart(s) ==
  IF s # <<>> /\ IsSpace(Head(s)) THEN TrimStart(Tail(s)) ELSE s

RECURSIVE TrimEnd(_)
TrimEnd(s) ==
  IF s # <<>> /\ IsSpace(s[Len(s)]) THEN TrimEnd(SubSeq(s, 1, Len(s) - 1)) ELSE s

\* String.prototype.trim
trim(s) == TrimEnd(TrimStart(s))

\* String.prototype.includes
includes(s, sub) ==
  \E i \in 1..(Len(s) - Len(sub) + 1) : SubSeq(s, i, i + Len(sub) - 1) = sub

\* s.replace(/\s+/g, " "): every maximal run of whitespace becomes one space
RECURSIVE CollapseSpaces(_)
CollapseSpaces(s) ==
  IF s = <<>> THEN <<>>
  ELSE IF IsSpace(Head(s))
       THEN <<" ">> \o CollapseSpaces(TrimStart(s))
       ELSE <<Head(s)>> \o CollapseSpaces(Tail(s))

\* s.replace(/\./g, ""): every "." is deleted
RemoveDots(s) == SelectSeq(s, LAMBDA c : c # ".")

\* s.replace(",", "."): the first "," becomes "."
ReplaceFirstComma(s) ==
  IF \E i \in 1..Len(s) : s[i] = ","
  THEN LET k == CHOOSE i \in 1..Len(s) :
                  s[i] = "," /\ \A j \in 1..(i - 1) : s[j] # ","
       IN [i \in 1..Len(s) |-> IF i = k THEN "." ELSE s[i]]
  ELSE s

\* the longest prefix of s made of digits
RECURSIVE DigitPrefix(_)
DigitPrefix(s) ==
  IF s # <<>> /\ IsDigit(Head(s)) THEN <<Head(s)>> \o DigitPrefix(Tail(s)) ELSE <<>>

\* the value of a sequence of digits, base 10 (0 for the empty sequence)
RECURSIVE DigitsValue(_)
DigitsValue(d) ==
  IF d = <<>> THEN 0 ELSE 10 * DigitsValue(SubSeq(d, 1, Len(d) - 1)) + DigitVal(d[Len(d)])

\* the decimal digits of a natural number
RECURSIVE NatToString(_)
NatToString(n) ==
  IF n < 10 THEN <<Digits[n + 1]>> ELSE NatToString(n \div 10) \o <<Digits[(n % 10) + 1]>>

(***************************************************************************)
(* Numbers and cells                                                       *)
(***************************************************************************)
NaN == [fin |-> FALSE, v |-> 0]

Finite(n) == [fin |-> TRUE, v |-> n]

\* parseFloat: leading whitespace, an optional sign, digits, an optional
\* "." and digits; NaN when no digit is found.  The result is 10 times the
\* number, truncated after the first decimal; exponents ("1e3") are not read
\* (no cell of the pools below has one).
parseFloat(s) ==
  LET t == TrimStart(s)
      neg == t # <<>> /\ Head(t) = "-"
      u == IF t # <<>> /\ Head(t) \in {"-", "+"} THEN Tail(t) ELSE t
      ip == DigitPrefix(u)
      rest == SubSeq(u, Len(ip) + 1, Len(u))
      fp == IF rest # <<>> /\ Head(rest) = "." THEN DigitPrefix(Tail(rest)) ELSE <<>>
      mag == 10 * DigitsValue(ip) + (IF fp = <<>> THEN 0 ELSE DigitVal(fp[1]))
  IN IF ip = <<>> /\ fp = <<>> THEN NaN
     ELSE Finite(IF neg THEN 0 - mag ELSE mag)

null == [t |-> "null"]

Text(s) == [t |-> "string", s |-> s]

Number(n) == [t |-> "number", n |-> n]

\* Number.prototype.toString of the number n/10
NumberToString(n) ==
  LET a == IF n < 0 THEN 0 - n ELSE n
  IN (IF n < 0 THEN <<"-">> ELSE <<>>) \o NatToString(a \div 10)
       \o (IF a % 10 = 0 THEN <<>> ELSE <<".", Digits[(a % 10) + 1]>>)

\* String(x ?? "")
ToStr(cell) ==
  IF cell.t = "null" THEN <<>>
  ELSE IF cell.t = "string" THEN cell.s
  ELSE NumberToString(cell.n)

\* row[c], undefined (here null) past the end of the row
CellAt(row, c) == IF c \in 1..Len(row) THEN row[c] ELSE null

USUARIO == <<"U", "S", "U", "Á", "R", "I", "O">>

TOTAL == <<"T", "O", "T", "A", "L">>

(***************************************************************************)
(* parsePivot                                                              *)
(***************************************************************************)
\* row.map(x => String(x ?? "").toUpperCase()).includes("USUÁRIO")
RowHasHeaderLabel(row) ==
  \E c \in 1..Len(row) : toUpperCase(ToStr(row[c])) = USUARIO

\* the for loop of lines 499-502: the first such row, 0 when there is none
HeaderRow(matrix) ==
  IF \E i \in 1..Len(matrix) : RowHasHeaderLabel(matrix[i])
  THEN CHOOSE i \in 1..Len(matrix) :
         RowHasHeaderLabel(matrix[i]) /\ \A j \in 1..(i - 1) : ~RowHasHeaderLabel(matrix[j])
  ELSE 0

IsUserLabel(cell) == trim(toUpperCase(ToStr(cell))) = USUARIO

\* header.findIndex(...), 0 when there is none
ColUser(header) ==
  IF \E c \in 1..Len(header) : IsUserLabel(header[c])
  THEN CHOOSE c \in 1..Len(header) :
         IsUserLabel(header[c]) /\ \A d \in 1..(c - 1) : ~IsUserLabel(header[d])
  ELSE 0

\* raw.match(/(\d{1,2})/): the first digit and the digit after it, if any;
\* <<>> when raw has no digit
RECURSIVE MatchDigits(_)
MatchDigits(raw) ==
  IF raw = <<>> THEN <<>>
  ELSE IF IsDigit(Head(raw))
       THEN IF Len(raw) >= 2 /\ IsDigit(raw[2]) THEN <<raw[1], raw[2]>> ELSE <<raw[1]>>
       ELSE MatchDigits(Tail(raw))

\* the range test without its upper bound
HourNotNegative(n) == n >= 0

\* the test of line 516 on n = parseInt(m[1], 10)
HourInRange(n) == n >= 0 /\ n <= 23

\* the loop of lines 511-517, from column c on
RECURSIVE HourColsFrom(_, _)
HourColsFrom(header, c) ==
  IF c > Len(header) THEN <<>>
  ELSE LET m == MatchDigits(ToStr(header[c]))
           n == DigitsValue(m)
       IN (IF m # <<>> /\ HourInRange(n) THEN <<[col |-> c, hour |-> n]>> ELSE <<>>)
            \o HourColsFrom(header, c + 1)

\* parseFloat(String(cell ?? "").replace(/\./g, "").replace(",", "."))
CellValue(cell) == parseFloat(ReplaceFirstComma(RemoveDots(ToStr(cell))))

\* the inner loop of lines 528-532 over hourCols[k..]
RECURSIVE RowTuples(_, _, _, _)
RowTuples(row, name, hourCols, k) ==
  IF k > Len(hourCols) THEN <<>>
  ELSE LET val == CellValue(CellAt(row, hourCols[k].col))
       IN (IF val.fin
           THEN <<[Usuario |-> name, Hora |-> hourCols[k].hour, Valor |-> val.v]>>
           ELSE <<>>)
            \o RowTuples(row, name, hourCols, k + 1)

\* the total test without toUpperCase
IsTotalNameSameCase(name) == includes(name, TOTAL)

\* name.toUpperCase().includes("TOTAL")
IsTotalName(name) == includes(toUpperCase(name), TOTAL)

\* the loop of lines 522-533, from row r on
RECURSIVE Walk(_, _, _, _)
Walk(matrix, r, colUser, hourCols) ==
  IF r > Len(matrix) THEN <<>>
  ELSE LET row == matrix[r]
           name == trim(ToStr(CellAt(row, colUser)))
       IN IF name = <<>> THEN Walk(matrix, r + 1, colUser, hourCols)
          ELSE IF IsTotalName(name) THEN <<>>
          ELSE RowTuples(row, name, hourCols, 1) \o Walk(matrix, r + 1, colUser, hourCols)

parsePivot(matrix) ==
  LET headerRow == HeaderRow(matrix)
  IN IF headerRow = 0 THEN <<>>
     ELSE LET header == matrix[headerRow]
              colUser == ColUser(header)
          IN IF colUser = 0 THEN <<>>
             ELSE LET hourCols == HourColsFrom(header, colUser + 1)
                  IN IF hourCols = <<>> THEN <<>>
                     ELSE Walk(matrix, headerRow + 1, colUser, hourCols)

(***************************************************************************)
(* getSheetByNameLike                                                      *)
(***************************************************************************)
\* norm = s.replace(/\s+/g, " ").trim().toUpperCase()
norm(s) == toUpperCase(trim(CollapseSpaces(s)))

\* Array.prototype.find over the answers of its predicate: the index of the
\* first TRUE, 0 if there is none
FirstIndex(flags) ==
  IF \E i \in 1..Len(flags) : flags[i]
  THEN CHOOSE i \in 1..Len(flags) : flags[i] /\ \A j \in 1..(i - 1) : ~flags[j]
  ELSE 0

\* the index in SheetNames of the located sheet, 0 for the code's null.  A
\* found name is never the empty string, so `name ? ... : null` keeps it.
getSheetByNameLike(SheetNames, expected) ==
  LET wanted == norm(expected)
      exact == FirstIndex([i \in 1..Len(SheetNames) |-> norm(SheetNames[i]) = wanted])
      like == FirstIndex([i \in 1..Len(SheetNames) |->
                            includes(norm(SheetNames[i]), wanted)])
  IN IF exact # 0 THEN exact ELSE like

ALTO_GIRO == <<"A", "L", "T", "O", " ", "G", "I", "R", "O">>

BAIXO_GIRO == <<"B", "A", "I", "X", "O", " ", "G", "I", "R", "O">>

\* the test failing only when both sheets are missing
SheetMissingBoth(wsAlto, wsBaixo) == wsAlto = 0 /\ wsBaixo = 0

\* the test of line 69
SheetMissing(wsAlto, wsBaixo) == wsAlto = 0 \/ wsBaixo = 0

(***************************************************************************)
(* The merge of lines 85-100                                               *)
(***************************************************************************)
\* key = (u, h) => `${u}__${h}`
key(u, h) == u \o <<"_", "_">> \o NatToString(h)

\* r.Valor || 0
OrZero(v) == IF v = 0 THEN 0 ELSE v

\* A Map is the sequence of its entries [k, v] in insertion order.
MapHas(map, k) == \E i \in 1..Len(map) : map[i].k = k

MapIndex(map, k) == CHOOSE i \in 1..Len(map) : map[i].k = k

\* a list that is appended to, whatever the key
MapSetAppend(map, k, v) == Append(map, [k |-> k, v |-> v])

\* map.set(k, v): an existing key keeps its place and gets the new value
MapSet(map, k, v) ==
  IF MapHas(map, k)
  THEN [map EXCEPT ![MapIndex(map, k)] = [k |-> k, v |-> v]]
  ELSE Append(map, [k |-> k, v |-> v])

\* un.forEach(...) of lines 88-90, from tuple i on
RECURSIVE PutUnits(_, _, _)
PutUnits(map, un, i) ==
  IF i > Len(un) THEN map
  ELSE LET r == un[i]
       IN PutUnits(MapSet(map, key(r.Usuario, r.Hora),
                          [Usuario |-> r.Usuario, Hora |-> r.Hora,
                           Unidades |-> OrZero(r.Valor), Caixas |-> 0]),
                   un, i + 1)

\* the cases value added to the one already there
PutCaseAdd(map, r) ==
  LET k == key(r.Usuario, r.Hora)
  IN IF MapHas(map, k)
     THEN [map EXCEPT ![MapIndex(map, k)].v.Caixas = @ + OrZero(r.Valor)]
     ELSE MapSet(map, k, [Usuario |-> r.Usuario, Hora |-> r.Hora,
                          Unidades |-> 0, Caixas |-> OrZero(r.Valor)])

\* one step of cx.forEach(...), lines 92-94
PutCase(map, r) ==
  LET k == key(r.Usuario, r.Hora)
  IN IF MapHas(map, k)
     THEN [map EXCEPT ![MapIndex(map, k)].v.Caixas = OrZero(r.Valor)]
     ELSE MapSet(map, k, [Usuario |-> r.Usuario, Hora |-> r.Hora,
                          Unidades |-> 0, Caixas |-> OrZero(r.Valor)])

RECURSIVE PutCases(_, _, _)
PutCases(map, cx, i) ==
  IF i > Len(cx) THEN map ELSE PutCases(PutCase(map, cx[i]), cx, i + 1)

\* [...map.values()]
MapValues(map) == [i \in 1..Len(map) |-> map[i].v]

\* The collation order of the characters user names are written with.
CollationOrder ==
  <<" ", "_", "U+0301", "0", "1", "2", "3", "4", "5", "6", "7", "8", "9",
    "a", "A", "b", "B", "d", "D", "e", "E", "i", "I", "n", "N", "u", "U", "x", "X">>

CharRank(c) == CHOOSE i \in 1..Len(CollationOrder) : CollationOrder[i] = c

\* Canonical decomposition: a precomposed letter is its base letter followed
\* by the combining acute accent U+0301.
RECURSIVE Decompose(_)
Decompose(s) ==
  IF s = <<>> THEN <<>>
  ELSE (IF Head(s) = "Á" THEN <<"A", "U+0301">>
        ELSE IF Head(s) = "á" THEN <<"a", "U+0301">>
        ELSE <<Head(s)>>) \o Decompose(Tail(s))

RECURSIVE CompareRanks(_, _)
CompareRanks(a, b) ==
  IF a = <<>> /\ b = <<>> THEN 0
  ELSE IF a = <<>> THEN 0 - 1
  ELSE IF b = <<>> THEN 1
  ELSE IF CharRank(Head(a)) < CharRank(Head(b)) THEN 0 - 1
  ELSE IF CharRank(Head(a)) > CharRank(Head(b)) THEN 1
  ELSE CompareRanks(Tail(a), Tail(b))

\* String.prototype.localeCompare: a total order on strings up to canonical
\* equivalence; it is 0 for two distinguishable strings that are canonically
\* equivalent (ECMA-262, String.prototype.localeCompare).  The order of
\* inequivalent strings is the implementation's; here it is by CollationOrder.
localeCompare(a, b) == CompareRanks(Decompose(a), Decompose(b))

\* (a, b) => a.Usuario.localeCompare(b.Usuario) || a.Hora - b.Hora
CompareRows(a, b) ==
  LET c == localeCompare(a.Usuario, b.Usuario)
  IN IF c # 0 THEN c ELSE a.Hora - b.Hora

\* Array.prototype.sort is stable: x goes after every element not greater
RECURSIVE InsertRow(_, _)
InsertRow(sorted, x) ==
  IF sorted = <<>> THEN <<x>>
  ELSE IF CompareRows(Head(sorted), x) <= 0
       THEN <<Head(sorted)>> \o InsertRow(Tail(sorted), x)
       ELSE <<x>> \o sorted

\* arr.sort(CompareRows)
RECURSIVE SortRows(_)
SortRows(arr) ==
  IF arr = <<>> THEN <<>>
  ELSE InsertRow(SortRows(SubSeq(arr, 1, Len(arr) - 1)), arr[Len(arr)])

\* lines 86-99: the records of the two tuple sequences, sorted
Combine(un, cx) ==
  SortRows(MapValues(PutCases(PutUnits(<<>>, un, 1), cx, 1)))

(***************************************************************************)
(* Aggregates (lines 111-138) and paretoCount                              *)
(***************************************************************************)
RECURSIVE SumSeq(_)
SumSeq(arr) == IF arr = <<>> THEN 0 ELSE Head(arr) + SumSeq(Tail(arr))

\* Array.from(new Set(arr)): the distinct elements, in order of first occurrence
RECURSIVE Distinct(_)
Distinct(arr) ==
  IF arr = <<>> THEN <<>>
  ELSE LET init == Distinct(SubSeq(arr, 1, Len(arr) - 1))
           x == arr[Len(arr)]
       IN IF \E i \in 1..Len(init) : init[i] = x THEN init ELSE Append(init, x)

\* the users of the records without the Set
usersWithRepeats(rs) == [i \in 1..Len(rs) |-> rs[i].Usuario]

\* line 111
users(rs) == Distinct([i \in 1..Len(rs) |-> rs[i].Usuario])

\* arr.sort((a, b) => a - b), stable
RECURSIVE InsertAsc(_, _)
InsertAsc(sorted, x) ==
  IF sorted = <<>> THEN <<x>>
  ELSE IF Head(sorted) - x <= 0
       THEN <<Head(sorted)>> \o InsertAsc(Tail(sorted), x)
       ELSE <<x>> \o sorted

RECURSIVE SortAsc(_)
SortAsc(arr) ==
  IF arr = <<>> THEN <<>>
  ELSE InsertAsc(SortAsc(SubSeq(arr, 1, Len(arr) - 1)), arr[Len(arr)])

\* lines 112-115
hours(rs) == SortAsc(Distinct([i \in 1..Len(rs) |-> rs[i].Hora]))

\* arr.sort((a, b) => b.total - a.total), stable
RECURSIVE InsertByTotal(_, _)
InsertByTotal(sorted, x) ==
  IF sorted = <<>> THEN <<x>>
  ELSE IF x.total - Head(sorted).total <= 0
       THEN <<Head(sorted)>> \o InsertByTotal(Tail(sorted), x)
       ELSE <<x>> \o sorted

RECURSIVE SortByTotal(_)
SortByTotal(arr) ==
  IF arr = <<>> THEN <<>>
  ELSE InsertByTotal(SortByTotal(SubSeq(arr, 1, Len(arr) - 1)), arr[Len(arr)])

\* lines 117-124
perUser(rs) ==
  LET us == users(rs)
      of(u) == SelectSeq(rs, LAMBDA r : r.Usuario = u)
      un(u) == SumSeq([i \in 1..Len(of(u)) |-> of(u)[i].Unidades])
      cx(u) == SumSeq([i \in 1..Len(of(u)) |-> of(u)[i].Caixas])
  IN SortByTotal([i \in 1..Len(us) |->
                    [u |-> us[i], un |-> un(us[i]), cx |-> cx(us[i]),
                     total |-> un(us[i]) + cx(us[i])]])

\* lines 126-132
perHour(rs) ==
  LET hs == hours(rs)
      of(h) == SelectSeq(rs, LAMBDA r : r.Hora = h)
      un(h) == SumSeq([i \in 1..Len(of(h)) |-> of(h)[i].Unidades])
      cx(h) == SumSeq([i \in 1..Len(of(h)) |-> of(h)[i].Caixas])
  IN [i \in 1..Len(hs) |->
        [h |-> hs[i], un |-> un(hs[i]), cx |-> cx(hs[i]),
         total |-> un(hs[i]) + cx(hs[i])]]

\* lines 134-138
totals(pu) ==
  LET un == SumSeq([i \in 1..Len(pu) |-> pu[i].un])
      cx == SumSeq([i \in 1..Len(pu) |-> pu[i].cx])
  IN [un |-> un, cx |-> cx, total |-> un + cx]

\* arr.sort((a, b) => b - a), stable
RECURSIVE InsertDesc(_, _)
InsertDesc(sorted, x) ==
  IF sorted = <<>> THEN <<x>>
  ELSE IF x - Head(sorted) <= 0
       THEN <<Head(sorted)>> \o InsertDesc(Tail(sorted), x)
       ELSE <<x>> \o sorted

RECURSIVE SortDesc(_)
SortDesc(arr) ==
  IF arr = <<>> THEN <<>>
  ELSE InsertDesc(SortDesc(SubSeq(arr, 1, Len(arr) - 1)), arr[Len(arr)])

\* acc / total >= 0.8, for total # 0 (exact for the small integers used here)
ReachesShare(acc, total) ==
  IF total > 0 THEN 10 * acc >= 8 * total ELSE 10 * acc <= 8 * total

\* the for loop of line 556 from index i (0-based) on: the value of i after it
RECURSIVE ParetoLoop(_, _, _, _)
ParetoLoop(sorted, total, acc, i) ==
  IF i >= Len(sorted) THEN i
  ELSE IF ReachesShare(acc + sorted[i + 1], total) THEN i
  ELSE ParetoLoop(sorted, total, acc + sorted[i + 1], i + 1)

\* lines 552-558; `|| 1` is the number 1, that is 10 in tenths
paretoCount(vals) ==
  LET sum == SumSeq(vals)
      total == IF sum = 0 THEN 10 ELSE sum
  IN ParetoLoop(SortDesc(vals), total, 0, 0) + 1

(***************************************************************************)
(* Bounds and input pools                                                  *)
(***************************************************************************)
MaxPending == 2

MaxRows == 3

MaxTuples == 2

MaxVals == 4

SeqsUpTo(S, n) == UNION {[1..k -> S] : k \in 0..n}

Hora08 == <<"H", "o", "r", "a", " ", "0", "8">>

Hora25 == <<"H", "o", "r", "a", " ", "2", "5">>

H08 == <<"0", "8", "h">>

Ana == <<"A", "n", "a">>

A1 == <<"A", "_", "_", "1">>

Precomposed == <<"Á">>

Decomposed == <<"A", "U+0301">>

TotalGeral == <<"T", "o", "t", "a", "l", " ", "G", "e", "r", "a", "l">>

\* header rows, data rows, a total row, a row without user, an empty row,
\* a row of numeric cells (1.5 and 2)
RowPool ==
  { <<Text(USUARIO), Text(Hora08), Text(Hora25)>>,
    <<Text(<<" ", "u", "s", "u", "á", "r", "i", "o", " ">>), Text(H08), Text(<<"9">>)>>,
    <<Text(<<"u", "s", "u", "á", "r", "i", "o">>), Text(<<"2", "3">>), Text(<<"2", "4">>)>>,
    <<Text(Ana), Text(<<"1", "0">>), Text(<<"5">>)>>,
    <<Text(TotalGeral), Text(<<"9", "9">>), Text(<<"9", "9">>)>>,
    <<null, Text(<<"3">>), Text(<<"4">>)>>,
    <<Text(<<" ", "B", "i", "a", " ">>), Text(<<"1", ".", "2", "3", "4", ",", "5">>),
      Text(<<"a", "b", "c">>)>>,
    <<Text(<<"x">>), Text(USUARIO), Text(<<"7">>)>>,
    <<>>,
    <<Text(<<"E", "d", "u">>), Number(15), Number(20)>> }

Matrices == SeqsUpTo(RowPool, MaxRows)

\* a units sheet whose two hour columns both read hour 8
SheetUnits ==
  << <<Text(USUARIO), Text(Hora08), Text(<<"8", "h">>)>>,
     <<Text(Ana), Text(<<"1", "0">>), Text(<<"5">>)>>,
     <<Text(A1), Text(<<"2">>), null>> >>

\* a cases sheet with two canonically equivalent user names and a total row
SheetCases ==
  << <<Text(USUARIO), Text(H08), Text(<<"9">>)>>,
     <<Text(Ana), Text(<<"2">>), Text(<<"0">>)>>,
     <<Text(Precomposed), Text(<<"7">>), null>>,
     <<Text(Decomposed), Text(<<"3">>), null>>,
     <<Text(TotalGeral), Text(<<"9", "9">>), Text(<<"9", "9">>)>> >>

SheetPool == {SheetUnits, SheetCases, <<>>}

AltoGiro2 == <<"a", "l", "t", "o", " ", " ", "g", "i", "r", "o", " ", "2">>

BaixoGiroPadded == <<" ", "B", "a", "i", "x", "o", " ", "G", "i", "r", "o", " ">>

AltoBaixo == ALTO_GIRO \o <<" ", "e", " ">> \o BAIXO_GIRO

Plan1 == <<"P", "l", "a", "n", "1">>

\* the SheetNames of the workbooks: none, one or both sheets present, under
\* exact and inexact names, in either order
NameLists ==
  { <<>>, <<Plan1>>, <<ALTO_GIRO>>, <<BaixoGiroPadded>>, <<Plan1, AltoGiro2>>,
    <<ALTO_GIRO, BaixoGiroPadded>>, <<BaixoGiroPadded, AltoGiro2>>,
    <<AltoGiro2, ALTO_GIRO, BaixoGiroPadded>>, <<AltoBaixo>> }

Tuple(u, h, v) == [Usuario |-> u, Hora |-> h, Valor |-> v]

TuplePool ==
  { Tuple(<<"A">>, 1, 50), Tuple(<<"A">>, 1, 70), Tuple(<<"A">>, 12, 50),
    Tuple(A1, 2, 0), Tuple(Precomposed, 1, 50), Tuple(Decomposed, 1, 70) }

ValPool == {0, 100, 300, 500}

(***************************************************************************)
(* The page: state, onFile and reader.onload                               *)
(***************************************************************************)
Status(msg, n) == [msg |-> msg, n |-> n]

\* what the upload started last has set: nothing while it is being read
NoResult == [status |-> Status("none", 0), rows |-> <<>>]

\* the record of the last completed read and of the result of the upload
\* started last
NoUpload ==
  [id |-> 0, outcome |-> "none", names |-> <<>>, un |-> <<>>, cx |-> <<>>,
   latest |-> NoResult]

Init ==
  /\ rows = <<>>
  /\ status = Status("initial", 0)
  /\ pending = {}
  /\ started = 0
  /\ last = NoUpload
  /\ input = <<>>
  /\ output = <<>>
  /\ pc = "page"

\* onFile, lines 56-61 and 107: with no file chosen nothing happens; with a
\* file, the status changes and a new FileReader starts reading
OnFile(hasFile) ==
  /\ pc = "page"
  /\ IF hasFile
     THEN /\ Cardinality(pending) < MaxPending
          /\ LET id == CHOOSE i \in 1..MaxPending :
                         i \notin pending /\ \A j \in 1..(i - 1) : j \in pending
             IN /\ pending' = pending \cup {id}
                /\ started' = id
          /\ status' = Status("reading", 0)
          /\ last' = [last EXCEPT !.latest = NoResult]
          /\ UNCHANGED <<rows, input, output, pc>>
     ELSE UNCHANGED vars

\* setRows([]) on every failure
OnLoadRowsClear(old, outcome, combined) == IF outcome = "processed" THEN combined ELSE <<>>

\* setRows is reached on success only (line 100)
OnLoadRows(old, outcome, combined) == IF outcome = "processed" THEN combined ELSE old

\* lines 67-68 on each list of NameLists
Located ==
  [names \in NameLists |->
     [alto |-> getSheetByNameLike(names, ALTO_GIRO),
      baixo |-> getSheetByNameLike(names, BAIXO_GIRO)]]

\* lines 77-78 on each sheet of SheetPool
Parsed == [matrix \in SheetPool |-> parsePivot(matrix)]

\* lines 85-99 on each pair of parses
Combined ==
  [p \in {<<Parsed[a], Parsed[b]>> : a \in SheetPool, b \in SheetPool} |->
     Combine(p[1], p[2])]

\* the end of reader.onload: setRows on success, setStatus always
Complete(id, outcome, names, un, cx) ==
  LET combined == IF outcome = "processed" THEN Combined[<<un, cx>>] ELSE <<>>
  IN /\ rows' = OnLoadRows(rows, outcome, combined)
     /\ status' = Status(outcome, Len(combined))
     /\ last' = [id |-> id, outcome |-> outcome, names |-> names, un |-> un, cx |-> cx,
                 latest |-> IF id = started
                            THEN [status |-> Status(outcome, Len(combined)),
                                  rows |-> OnLoadRows(rows, outcome, combined)]
                            ELSE last.latest]

\* lines 74-101, once both sheets are located: alto and baixo are what
\* sheet_to_json returns for them
OnSheets(id, names, alto, baixo) ==
  LET un == Parsed[alto]
      cx == Parsed[baixo]
  IN IF un = <<>> /\ cx = <<>>
     THEN Complete(id, "empty", names, un, cx)
     ELSE Complete(id, "processed", names, un, cx)

\* reader.onload, lines 62-106, for the reader id.  XLSX.read either throws
\* (caught at line 102) or returns a workbook with some SheetNames.
OnLoad(id) ==
  /\ pc = "page"
  /\ id \in pending
  /\ pending' = pending \ {id}
  /\ \/ Complete(id, "error", <<>>, <<>>, <<>>)
     \/ \E names \in NameLists :
          LET wsAlto == Located[names].alto
              wsBaixo == Located[names].baixo
          IN IF SheetMissing(wsAlto, wsBaixo)
             THEN Complete(id, "sheetNotFound", names, <<>>, <<>>)
             ELSE \E alto \in SheetPool, baixo \in SheetPool :
                    /\ wsAlto = wsBaixo => alto = baixo
                    /\ OnSheets(id, names, alto, baixo)
  /\ UNCHANGED <<started, input, output, pc>>

Next ==
  \/ \E hasFile \in BOOLEAN : OnFile(hasFile)
  \/ \E id \in 1..MaxPending : OnLoad(id)

Spec == Init /\ [][Next]_vars

(***************************************************************************)
(* parsePivot, the merge and paretoCount on their own                      *)
(***************************************************************************)
PageIdle ==
  /\ rows = <<>>
  /\ status = Status("initial", 0)
  /\ pending = {}
  /\ started = 0
  /\ last = NoUpload

InitParse == PageIdle /\ pc = "parse" /\ input \in Matrices /\ output = <<>>

Parse ==
  /\ pc = "parse"
  /\ output' = parsePivot(input)
  /\ pc' = "parsed"
  /\ UNCHANGED <<rows, status, pending, started, last, input>>

SpecParse == InitParse /\ [][Parse]_vars

InitMerge ==
  /\ PageIdle
  /\ pc = "merge"
  /\ input \in {<<un, cx>> : un \in SeqsUpTo(TuplePool, MaxTuples),
                             cx \in SeqsUpTo(TuplePool, MaxTuples)}
  /\ output = <<>>

\* lines 85-100 on the tuple sequences input[1] (units) and input[2] (cases)
Merge ==
  /\ pc = "merge"
  /\ rows' = Combine(input[1], input[2])
  /\ pc' = "merged"
  /\ UNCHANGED <<status, pending, started, last, input, output>>

SpecMerge == InitMerge /\ [][Merge]_vars

InitPareto == PageIdle /\ pc = "pareto" /\ input \in SeqsUpTo(ValPool, MaxVals) /\ output = 0

Pareto ==
  /\ pc = "pareto"
  /\ output' = paretoCount(input)
  /\ pc' = "counted"
  /\ UNCHANGED <<rows, status, pending, started, last, input>>

SpecPareto == InitPareto /\ [][Pareto]_vars

(***************************************************************************)
(* Properties                                                              *)
(***************************************************************************)
SamePair(a, b) == a.Usuario = b.Usuario /\ a.Hora = b.Hora

\* C1: after any sequence of uploads, no two records of the record set have
\* the same (user, hour) pair.
C1_NoDuplicatePairs ==
  \A i, j \in 1..Len(rows) : i # j => ~SamePair(rows[i], rows[j])

\* a completed upload whose units sheet emitted two tuples for one pair and
\* a user name containing "__"
C1_Witness ==
  /\ last.outcome = "processed"
  /\ \E i, j \in 1..Len(last.un) : i # j /\ SamePair(last.un[i], last.un[j])
  /\ \E i \in 1..Len(rows) : rows[i].Usuario = A1

\* the header row and user column parsePivot works with, for a parsed input
ParsedHeader == input[HeaderRow(input)]

HasHourColumns ==
  /\ HeaderRow(input) # 0
  /\ ColUser(ParsedHeader) # 0
  /\ HourColsFrom(ParsedHeader, ColUser(ParsedHeader) + 1) # <<>>

\* C2: every tuple parsePivot emits has an hour in 0..23, and that hour is
\* the first run of one or two digits of a header cell right of the user
\* column; a header whose digits read a number outside 0..23 gives no tuple.
C2_HoursInRange ==
  pc = "parsed" =>
    \A i \in 1..Len(output) :
      /\ output[i].Hora \in 0..23
      /\ \E c \in (ColUser(ParsedHeader) + 1)..Len(ParsedHeader) :
           LET m == MatchDigits(ToStr(ParsedHeader[c]))
           IN m # <<>> /\ DigitsValue(m) = output[i].Hora

\* header "USUÁRIO", "Hora 08", "Hora 25" over the row "Ana", "10", "5": the
\* value under "Hora 25" is dropped
C2_Witness ==
  /\ pc = "parsed"
  /\ input = << <<Text(USUARIO), Text(Hora08), Text(Hora25)>>,
                <<Text(Ana), Text(<<"1", "0">>), Text(<<"5">>)>> >>
  /\ output = <<Tuple(Ana, 8, 100)>>

\* the first row with a cell whose trimmed, uppercased text is "USUÁRIO"
FirstLabelRow(matrix) ==
  IF \E i \in 1..Len(matrix) : \E c \in 1..Len(matrix[i]) : IsUserLabel(matrix[i][c])
  THEN CHOOSE i \in 1..Len(matrix) :
         /\ \E c \in 1..Len(matrix[i]) : IsUserLabel(matrix[i][c])
         /\ \A j \in 1..(i - 1) : \A c \in 1..Len(matrix[j]) : ~IsUserLabel(matrix[j][c])
  ELSE 0

\* C3: the header row parsePivot takes is the first row with a cell whose
\* trimmed and uppercased text equals "USUÁRIO", and it finds no header row
\* only when there is no such row.
C3_HeaderIsFirstLabelRow ==
  pc = "parsed" => HeaderRow(input) = FirstLabelRow(input)

\* the trimmed text of the user column of row r
UserText(matrix, r, colUser) == trim(ToStr(CellAt(matrix[r], colUser)))

\* the first row below the header whose user text contains "TOTAL" in any
\* case, or the row after the last one
StopRow(matrix, headerRow, colUser) ==
  LET stops == {r \in (headerRow + 1)..Len(matrix) :
                  includes(toUpperCase(UserText(matrix, r, colUser)), TOTAL)}
  IN IF stops = {} THEN Len(matrix) + 1
     ELSE CHOOSE r \in stops : \A q \in stops : r <= q

\* the tuples of the rows r..stop-1 that have a user
RECURSIVE TuplesOfRows(_, _, _, _, _)
TuplesOfRows(matrix, r, stop, colUser, hourCols) ==
  IF r >= stop THEN <<>>
  ELSE (IF UserText(matrix, r, colUser) = <<>> THEN <<>>
        ELSE RowTuples(matrix[r], UserText(matrix, r, colUser), hourCols, 1))
         \o TuplesOfRows(matrix, r + 1, stop, colUser, hourCols)

\* C4: the tuples emitted are those of the rows between the header and the
\* first row whose user text contains "TOTAL" (any case), rows without a user
\* being skipped; nothing is emitted for the total row or any row after it.
C4_WalkStopsAtTotal ==
  pc = "parsed" /\ HasHourColumns =>
    LET colUser == ColUser(ParsedHeader)
    IN output = TuplesOfRows(input, HeaderRow(input) + 1,
                             StopRow(input, HeaderRow(input), colUser), colUser,
                             HourColsFrom(ParsedHeader, colUser + 1))

\* a total row right below the header hides the well-formed row after it
C4_Witness ==
  /\ pc = "parsed"
  /\ input = << <<Text(USUARIO), Text(Hora08), Text(Hora25)>>,
                <<Text(TotalGeral), Text(<<"9", "9">>), Text(<<"9", "9">>)>>,
                <<Text(Ana), Text(<<"1", "0">>), Text(<<"5">>)>> >>
  /\ output = <<>>

\* the value of the last tuple of seq with the pair (u, h), 0 if there is none
LastValue(seq, u, h) ==
  LET at == {i \in 1..Len(seq) : seq[i].Usuario = u /\ seq[i].Hora = h}
  IN IF at = {} THEN 0 ELSE seq[CHOOSE i \in at : \A j \in at : j <= i].Valor

PairsOf(seq) == {<<seq[i].Usuario, seq[i].Hora>> : i \in 1..Len(seq)}

\* C5: the merge has exactly one record per (user, hour) pair of either
\* sequence, with the last units value and the last cases value of that pair,
\* 0 where a side has none.
C5_MergeLastWins ==
  pc = "merged" =>
    /\ \A i \in 1..Len(rows) :
         <<rows[i].Usuario, rows[i].Hora>> \in PairsOf(input[1]) \cup PairsOf(input[2])
    /\ \A p \in PairsOf(input[1]) \cup PairsOf(input[2]) :
         LET at == {i \in 1..Len(rows) : rows[i].Usuario = p[1] /\ rows[i].Hora = p[2]}
         IN /\ Cardinality(at) = 1
            /\ \A i \in at :
                 /\ rows[i].Unidades = LastValue(input[1], p[1], p[2])
                 /\ rows[i].Caixas = LastValue(input[2], p[1], p[2])

\* two cases tuples for the pair of a units tuple: the second one wins
C5_Witness ==
  /\ pc = "merged"
  /\ input = << <<Tuple(<<"A">>, 1, 50)>>,
                <<Tuple(<<"A">>, 1, 50), Tuple(<<"A">>, 1, 70)>> >>
  /\ rows = <<[Usuario |-> <<"A">>, Hora |-> 1, Unidades |-> 50, Caixas |-> 70]>>

TopReaches(vals, k) ==
  10 * SumSeq(SubSeq(SortDesc(vals), 1, k)) >= 8 * SumSeq(vals)

\* C7: for a non-empty sequence of non-negative values paretoCount is the
\* least count k of largest values adding up to at least 80% of the sum, and
\* 1 <= k <= the number of values.
C7_ParetoIsLeastCount ==
  pc = "counted" /\ input # <<>> =>
    /\ output \in 1..Len(input)
    /\ TopReaches(input, output)
    /\ \A k \in 1..(output - 1) : ~TopReaches(input, k)

\* a completion of an upload: a reader leaves pending
Completes == pending' # pending /\ pending' \subseteq pending

\* C8: a completed upload either replaces the record set by the merge of its
\* own two sheets, or (sheet not found, nothing parsed, decode error) leaves
\* the record set as it was.
C8_ReplaceOrKeep ==
  [][Completes =>
       IF last'.outcome = "processed"
       THEN rows' = Combine(last'.un, last'.cx)
       ELSE last'.outcome \in {"sheetNotFound", "empty", "error"} /\ rows' = rows]_vars

\* a failed upload after a successful one: the earlier records are still there
C8_Witness ==
  /\ last.outcome \in {"sheetNotFound", "empty", "error"}
  /\ rows # <<>>

\* whether some sheet name contains the label, both normalised
SheetPresent(names, label) ==
  \E i \in 1..Len(names) : includes(norm(names[i]), norm(label))

Decoded == last.outcome \notin {"none", "error"}

\* C9 as claimed: the upload ends in SheetNotFound exactly when neither
\* "ALTO GIRO" nor "BAIXO GIRO" is located.
C9_NotFoundIffNeither ==
  Decoded =>
    (last.outcome = "sheetNotFound" <=>
       ~SheetPresent(last.names, ALTO_GIRO) /\ ~SheetPresent(last.names, BAIXO_GIRO))

\* C9 as amended: the upload ends in SheetNotFound exactly when at least one
\* of "ALTO GIRO" and "BAIXO GIRO" is not located; only a workbook with both
\* proceeds to parsing.
C9_NotFoundIffAnyMissing ==
  Decoded =>
    (last.outcome = "sheetNotFound" <=>
       ~SheetPresent(last.names, ALTO_GIRO) \/ ~SheetPresent(last.names, BAIXO_GIRO))

\* a workbook with "ALTO GIRO" and without "BAIXO GIRO" ends in SheetNotFound
C9_Witness ==
  /\ last.outcome = "sheetNotFound"
  /\ SheetPresent(last.names, ALTO_GIRO)
  /\ ~SheetPresent(last.names, BAIXO_GIRO)

\* C10: of two consecutive records either the first user precedes the second,
\* or the users are equal (here: compare equal) and the first hour is
\* strictly smaller.
C10_StrictlyOrdered ==
  pc = "merged" =>
    \A i \in 1..(Len(rows) - 1) :
      \/ localeCompare(rows[i].Usuario, rows[i + 1].Usuario) < 0
      \/ /\ localeCompare(rows[i].Usuario, rows[i + 1].Usuario) = 0
         /\ rows[i].Hora < rows[i + 1].Hora

\* C11: once no read is in flight, the record set and status shown are the
\* ones the upload started last has set, also when an earlier upload was
\* still being read when it started.
C11_LatestUploadWins ==
  pending = {} /\ last.outcome # "none" =>
    /\ last.latest # NoResult
    /\ status = last.latest.status
    /\ rows = last.latest.rows

\* C12: a numeric cell holding v under a registered hour column, in a row
\* that is walked, gives a tuple of that user and hour whose value is v.
C12_NumericCellKept ==
  pc = "parsed" /\ HasHourColumns =>
    LET colUser == ColUser(ParsedHeader)
        hourCols == HourColsFrom(ParsedHeader, colUser + 1)
        stop == StopRow(input, HeaderRow(input), colUser)
    IN \A r \in (HeaderRow(input) + 1)..(stop - 1) :
         \A k \in 1..Len(hourCols) :
           LET cell == CellAt(input[r], hourCols[k].col)
           IN UserText(input, r, colUser) # <<>> /\ cell.t = "number" =>
                \E i \in 1..Len(output) :
                  output[i] = Tuple(UserText(input, r, colUser), hourCols[k].hour, cell.n)

====
